---- MODULE Spec2Model ----
(***************************************************************************)
(* The search dashboard of streamlit-app/anycompany_search.py:             *)
(* clean_json_string, process_query and main, with the three services      *)
(* process_query calls (Bedrock text generation, the SSM parameter store,  *)
(* the OpenSearch index) as an environment that answers each request.      *)
(*                                                                         *)
(* Texts typed by the user are tuples of characters.  A text returned by   *)
(* the generation service is a tuple of lexical units: a unit is a run of  *)
(* characters that either holds no brace, is a lone brace, or is a whole   *)
(* JSON object, so str.find('{') and str.rfind('}') fall on unit borders.  *)
(***************************************************************************)
EXTENDS Integers, Sequences, FiniteSets, TLC

VARIABLES
    query_text,     \* st.session_state.query_text
    query_input,    \* the text area's content (local query_text of main)
    pc,             \* where the session is in the query cycle
    inflight,       \* the service process_query is blocked on, or "none"
    request,        \* the request that service has not answered yet
    reply,          \* the service's answer, not yet consumed by process_query
    cleaned_query,  \* process_query's local: the result of clean_json_string
    calls,          \* the external calls issued since the last press of Search
    shown,          \* the messages on the page (st.error / st.warning)
    summary,        \* tab "Summary View"
    detail,         \* tab "Detailed View"
    fault,          \* an exception left main() unhandled
    stack,          \* each stack of app.py: "pending", "deploying" or "deployed"
    created         \* the resources that exist, as <<stack, construct id>>

vars == <<query_text, query_input, pc, inflight, request, reply, cleaned_query,
          calls, shown, summary, detail, fault, stack, created>>

-----------------------------------------------------------------------------
(* Bounds of the model *)

MaxLen == 3

MaxHits == 2

MaxBuckets == 2

-----------------------------------------------------------------------------
(* Texts of the user *)

EmptyText == <<>>

\* "what are the breach notification requirements for each client?" (line 202)
PresetBreach == <<"w","h","a","t"," ","a","r","e"," ","t","h","e"," ","b","r","e","a","c","h"," ","n","o","t","i","f","i","c","a","t","i","o","n"," ","r","e","q","u","i","r","e","m","e","n","t","s"," ","f","o","r"," ","e","a","c","h"," ","c","l","i","e","n","t","?">>

\* "what are the time entry requirements for each client?" (line 207)
PresetTime == <<"w","h","a","t"," ","a","r","e"," ","t","h","e"," ","t","i","m","e"," ","e","n","t","r","y"," ","r","e","q","u","i","r","e","m","e","n","t","s"," ","f","o","r"," ","e","a","c","h"," ","c","l","i","e","n","t","?">>

\* "what are the types of expenses requirements for each client?" (line 212)
PresetExpenses == <<"w","h","a","t"," ","a","r","e"," ","t","h","e"," ","t","y","p","e","s"," ","o","f"," ","e","x","p","e","n","s","e","s"," ","r","e","q","u","i","r","e","m","e","n","t","s"," ","f","o","r"," ","e","a","c","h"," ","c","l","i","e","n","t","?">>

\* "what are not the time entry requirements?" (the prompt's second worked example, line 67)
ExampleNegated == <<"w","h","a","t"," ","a","r","e"," ","n","o","t"," ","t","h","e"," ","t","i","m","e"," ","e","n","t","r","y"," ","r","e","q","u","i","r","e","m","e","n","t","s","?">>

\* "list every client" (a question that names no trigger word)
NoKeywordText == <<"l","i","s","t"," ","e","v","e","r","y"," ","c","l","i","e","n","t">>

Presets == {PresetBreach, PresetTime, PresetExpenses}

Inputs == Presets \cup {EmptyText, ExampleNegated, NoKeywordText}

\* Python's `needle in text` on strings
Contains(text, needle) ==
    \E i \in 1..(Len(text) - Len(needle) + 1) :
        SubSeq(text, i, i + Len(needle) - 1) = needle

-----------------------------------------------------------------------------
(* The rules the system prompt gives the generation service *)

Kw_notification == <<"n","o","t","i","f","i","c","a","t","i","o","n">>

Kw_breach == <<"b","r","e","a","c","h">>

Kw_security == <<"s","e","c","u","r","i","t","y">>

Kw_expense == <<"e","x","p","e","n","s","e">>

Kw_cost == <<"c","o","s","t">>

Kw_fee == <<"f","e","e">>

Kw_charge == <<"c","h","a","r","g","e">>

Kw_time == <<"t","i","m","e">>

Kw_hour == <<"h","o","u","r">>

Kw_billing == <<"b","i","l","l","i","n","g">>

Kw_timekeeper == <<"t","i","m","e","k","e","e","p","e","r">>

Kw_not == <<"n","o","t">>

\* "Field mapping rules" of the system prompt, in the order it lists them
FieldRules ==
    << [field |-> "breach_notification_required",
        triggers |-> {Kw_notification, Kw_breach, Kw_security}],
       [field |-> "types_of_expenses",
        triggers |-> {Kw_expense, Kw_cost, Kw_fee, Kw_charge}],
       [field |-> "time_entry_requirements",
        triggers |-> {Kw_time, Kw_hour, Kw_billing, Kw_timekeeper}] >>

RuleMatches(rule, text) == \E kw \in rule.triggers : Contains(text, kw)

HasTrigger(text) == \E i \in 1..Len(FieldRules) : RuleMatches(FieldRules[i], text)

\* "Boolean value rules" of the system prompt: false if the question includes 'not'
PromptPolarity(text) == ~Contains(text, Kw_not)

-----------------------------------------------------------------------------
(* Texts of the generation service, and JSON *)

\* The three clause shapes of the prompt's query template
TermClause(f, v) == [kind |-> "term", field |-> f, value |-> v]

ExistsClause == [kind |-> "exists", field |-> "company", value |-> TRUE]

ScriptClause == [kind |-> "script", field |-> "company.keyword", value |-> TRUE]

\* Units that are a whole JSON object, named by what the object is:
\*   "QBreachTrue"   the assistant turn of the request and the first worked example
\*   "QTimeFalse"    the second worked example
\*   "QExpenseOnly"  {"bool": {"must": [{"term": {"types_of_expenses": true}}]}}
ObjectUnits == {"QBreachTrue", "QTimeFalse", "QExpenseOnly"}

\* The must-list of an object unit
MustList(u) ==
    CASE u = "QBreachTrue" ->
            <<TermClause("breach_notification_required", TRUE), ExistsClause, ScriptClause>>
      [] u = "QTimeFalse" ->
            <<TermClause("time_entry_requirements", FALSE), ExistsClause, ScriptClause>>
      [] u = "QExpenseOnly" ->
            <<TermClause("types_of_expenses", TRUE)>>
      [] OTHER -> <<>>

\* "Here" is a word of prose, " " is white space, "0" is the number 0 and
\* "null" the JSON literal
Units == {"Here", " ", "{", "}", "[", "]", "0", "null"} \cup ObjectUnits

Texts == UNION {[1..n -> Units] : n \in 0..MaxLen}

StripSpace(s) == SelectSeq(s, LAMBDA u : u # " ")

RECURSIVE IsJsonValue(_)
IsJsonValue(s) ==
    \/ Len(s) = 1 /\ s[1] \in ObjectUnits \cup {"0", "null"}
    \/ s = <<"{", "}">>
    \/ /\ Len(s) >= 2
       /\ s[1] = "["
       /\ s[Len(s)] = "]"
       /\ (Len(s) = 2 \/ IsJsonValue(SubSeq(s, 2, Len(s) - 1)))

\* json.loads on a str: the value (written without white space), or JSONDecodeError
json_loads(s) ==
    IF IsJsonValue(StripSpace(s))
    THEN [ok |-> TRUE, val |-> StripSpace(s), exc |-> "none"]
    ELSE [ok |-> FALSE, val |-> <<>>, exc |-> "JSONDecodeError"]

\* Python truth value of a parsed JSON value
Truthy(v) == v \notin {<<"{", "}">>, <<"[", "]">>, <<"0">>, <<"null">>}

HasOpen(u) == u = "{" \/ u \in ObjectUnits

HasClose(u) == u = "}" \/ u \in ObjectUnits

\* str.find('{'): the 0-based place of the first '{', or -1
find_open(s) ==
    IF \E i \in 1..Len(s) : HasOpen(s[i])
    THEN (CHOOSE i \in 1..Len(s) :
            HasOpen(s[i]) /\ \A j \in 1..(i - 1) : ~HasOpen(s[j])) - 1
    ELSE -1

\* str.rfind('}'): the 0-based place of the last '}', or -1
rfind_close(s) ==
    IF \E i \in 1..Len(s) : HasClose(s[i])
    THEN (CHOOSE i \in 1..Len(s) :
            HasClose(s[i]) /\ \A j \in (i + 1)..Len(s) : ~HasClose(s[j])) - 1
    ELSE -1

\* Python's s[start:end] for 0 <= start, 0 <= end
Slice(s, start, end) == SubSeq(s, start + 1, end)

Returned(v) == [none |-> FALSE, val |-> v, err |-> FALSE, raised |-> FALSE]

ReturnedNone(e) == [none |-> TRUE, val |-> <<>>, err |-> e, raised |-> FALSE]

Raised == [none |-> TRUE, val |-> <<>>, err |-> FALSE, raised |-> TRUE]

\* `except json.JSONDecodeError` of the outer try
OuterHandles(exc) == exc = "JSONDecodeError"

\* An inner try with no except clause
InnerHandlesNothing(exc) == FALSE

\* the bare `except:` of the inner try
InnerHandles(exc) == TRUE

\* The slice tried without the closing brace (end_idx without the + 1)
ParseSliceShort(response_text) ==
    LET start_idx == find_open(response_text)
        end_idx == rfind_close(response_text)
        inner == json_loads(Slice(response_text, start_idx, end_idx))
    IN  IF start_idx # -1 /\ end_idx # -1
        THEN IF inner.ok THEN Returned(inner.val) ELSE ReturnedNone(TRUE)
        ELSE ReturnedNone(FALSE)

\* the inner try: the slice from the first '{' to the last '}'
ParseSlice(response_text) ==
    LET start_idx == find_open(response_text)
        end_idx == rfind_close(response_text) + 1
        inner == json_loads(Slice(response_text, start_idx, end_idx))
    IN  IF start_idx # -1 /\ end_idx # 0
        THEN IF inner.ok THEN Returned(inner.val)
             ELSE IF InnerHandles(inner.exc) THEN ReturnedNone(TRUE)
             ELSE Raised
        ELSE ReturnedNone(FALSE)

clean_json_string(response_text) ==
    LET whole == json_loads(response_text)
    IN  IF whole.ok THEN Returned(whole.val)
        ELSE IF OuterHandles(whole.exc) THEN ParseSlice(response_text)
        ELSE Raised

-----------------------------------------------------------------------------
(* The index's answer and the two views *)

\* The "_source" projection process_query asks for
SourceFields ==
    {"company", "breach_notification_required", "Agreement_date",
     "time_entry_requirements", "types_of_expenses", "AMAZON_BEDROCK_TEXT",
     "x-amz-bedrock-kb-source-uri"}

Companies == {"acme", "globex"}

\* A document's "_source": a field holds a value, holds null, or is "absent"
FullDoc(c) == [f \in SourceFields |-> IF f = "company" THEN c ELSE "value"]

Docs ==
    {FullDoc(c) : c \in Companies} \cup
    {[FullDoc("acme") EXCEPT !["company"] = "absent"],
     [FullDoc("globex") EXCEPT !["Agreement_date"] = "absent",
                               !["types_of_expenses"] = "null"]}

HitLists == UNION {[1..n -> Docs] : n \in 0..MaxHits}

\* The buckets of the terms aggregation on company.keyword, in the service's order
BucketLists ==
    {b \in UNION {[1..n -> [key : Companies, doc_count : 1..MaxHits]] : n \in 0..MaxBuckets} :
        \A i, j \in 1..Len(b) : b[i].key = b[j].key => i = j}

\* The terms aggregation over the matched documents: one bucket per company
\* value among them with the number of documents that hold it, larger counts first
Aggregates(b, h) ==
    /\ {b[i].key : i \in 1..Len(b)} = {h[i]["company"] : i \in 1..Len(h)} \cap Companies
    /\ \A i \in 1..Len(b) :
            b[i].doc_count = Cardinality({j \in 1..Len(h) : h[j]["company"] = b[i].key})
    /\ \A i, j \in 1..Len(b) : i < j => b[i].doc_count >= b[j].doc_count

IndexResponses ==
    {r \in [buckets : BucketLists, hits : HitLists] : Aggregates(r.buckets, r.hits)}

NoResponse == [buckets |-> <<>>, hits |-> <<>>]

\* source[key] in place of source.get(key, default): a missing key raises
dict_subscript(source, key, default) ==
    IF source[key] = "absent" THEN "KeyError" ELSE source[key]

\* dict.get(key, default)
dict_get(source, key, default) ==
    IF source[key] = "absent" THEN default ELSE source[key]

\* One expander of the detail tab: its title and the five lines under it
DetailEntry(source) ==
    [company |-> dict_get(source, "company", "Unknown"),
     Agreement_date |-> dict_get(source, "Agreement_date", "N/A"),
     breach_notification_required |-> dict_get(source, "breach_notification_required", "N/A"),
     time_entry_requirements |-> dict_get(source, "time_entry_requirements", "N/A"),
     types_of_expenses |-> dict_get(source, "types_of_expenses", "N/A"),
     AMAZON_BEDROCK_TEXT |-> dict_get(source, "AMAZON_BEDROCK_TEXT", "N/A")]

EntryRaises(e) ==
    "KeyError" \in {e.company, e.Agreement_date, e.breach_notification_required,
                    e.time_entry_requirements, e.types_of_expenses, e.AMAZON_BEDROCK_TEXT}

NoView == [state |-> "none", rows |-> <<>>]

\* tab1 without its else branch: the table is drawn whatever the buckets
SummaryViewNoElse(response) == [state |-> "rows", rows |-> response.buckets]

\* tab1 of main
SummaryView(response) ==
    LET companies == response.buckets
    IN  IF companies # <<>>
        THEN [state |-> "rows", rows |-> companies]
        ELSE [state |-> "No companies found", rows |-> <<>>]

\* tab2 looping over reversed(hits)
DetailViewReversed(response) ==
    LET hits == response.hits
    IN  IF hits # <<>>
        THEN [state |-> "rows",
              rows |-> [i \in 1..Len(hits) |-> DetailEntry(hits[Len(hits) + 1 - i])]]
        ELSE [state |-> "No detailed results found", rows |-> <<>>]

\* tab2 of main
DetailView(response) ==
    LET hits == response.hits
    IN  IF hits # <<>>
        THEN [state |-> "rows", rows |-> [i \in 1..Len(hits) |-> DetailEntry(hits[i])]]
        ELSE [state |-> "No detailed results found", rows |-> <<>>]

-----------------------------------------------------------------------------
(* The four stacks of app.py and what each declares *)

Root == "DataStack"

Index == "IndexStack"

Bedrock == "BedrockStack"

App == "AppInfraStack"

Stacks == {Root, Index, Bedrock, App}

\* app.py without app_stack.add_dependency(oss_stack)
StackDependsOnAppFree ==
    {<<Index, Root>>, <<Bedrock, Root>>, <<Bedrock, Index>>, <<App, Root>>}

\* app.py without kb_stack.add_dependency(oss_stack)
StackDependsOnKbFree ==
    {<<Index, Root>>, <<Bedrock, Root>>, <<App, Root>>, <<App, Index>>}

\* add_dependency in app.py: <<a, b>> says a depends on b
StackDependsOn ==
    {<<Index, Root>>, <<Bedrock, Root>>, <<Bedrock, Index>>,
     <<App, Root>>, <<App, Index>>}

\* The constructs of RootStack; <<a, b>> says a refers to b
RootResources ==
    {"KnowledgeBaseBucket", "KnowledgeBaseMetaDataBucket", "BedrockKnowledgeBaseRole",
     "BedrockKBRoleArnParam", "AnycompanyDemoEC2Role", "EC2RoleArnParam",
     "LambdaFunctionRole", "MetadataProcessingLambda"}

RootDependsOn ==
    {<<"BedrockKnowledgeBaseRole", "KnowledgeBaseBucket">>,
     <<"BedrockKnowledgeBaseRole", "KnowledgeBaseMetaDataBucket">>,
     <<"BedrockKBRoleArnParam", "BedrockKnowledgeBaseRole">>,
     <<"EC2RoleArnParam", "AnycompanyDemoEC2Role">>,
     <<"MetadataProcessingLambda", "LambdaFunctionRole">>}

\* The constructs of OpenSearchServerlessStack
IndexResources ==
    {"EncryptionPolicy", "NetworkPolicy", "BasicVectorCollection", "DataAccessPolicy",
     "CollectionArnParam", "WaitForCollection", "FoundationalVectorIndex",
     "IndexNameParam", "OpenSearchEndpointParam"}

\* create_index without index.node.add_dependency(wait_for_collection)
IndexDependsOnNoWait ==
    {<<"NetworkPolicy", "EncryptionPolicy">>,
     <<"BasicVectorCollection", "NetworkPolicy">>,
     <<"DataAccessPolicy", "BasicVectorCollection">>,
     <<"CollectionArnParam", "BasicVectorCollection">>,
     <<"WaitForCollection", "BasicVectorCollection">>,
     <<"WaitForCollection", "DataAccessPolicy">>,
     <<"FoundationalVectorIndex", "BasicVectorCollection">>,
     <<"OpenSearchEndpointParam", "BasicVectorCollection">>}

\* node.add_dependency, and the attributes of the collection other constructs use
IndexDependsOn ==
    {<<"NetworkPolicy", "EncryptionPolicy">>,
     <<"BasicVectorCollection", "NetworkPolicy">>,
     <<"DataAccessPolicy", "BasicVectorCollection">>,
     <<"CollectionArnParam", "BasicVectorCollection">>,
     <<"WaitForCollection", "BasicVectorCollection">>,
     <<"WaitForCollection", "DataAccessPolicy">>,
     <<"FoundationalVectorIndex", "BasicVectorCollection">>,
     <<"FoundationalVectorIndex", "WaitForCollection">>,
     <<"OpenSearchEndpointParam", "BasicVectorCollection">>}

\* The constructs of BedrockKBStack
BedrockResources == {"BedrockKnowledgeBase", "S3DataSource"}

BedrockDependsOn == {<<"S3DataSource", "BedrockKnowledgeBase">>}

\* The constructs of AppInfraStack
AppResources ==
    {"AnycompanyDemoVPC", "AnycompanyPocSG", "ALBSecurityGroup",
     "AnycompanyDemoInstance", "AnycompanyALB", "AnycompanyTargetGroup", "ALBListener"}

AppDependsOn ==
    {<<"AnycompanyPocSG", "AnycompanyDemoVPC">>,
     <<"ALBSecurityGroup", "AnycompanyDemoVPC">>,
     <<"AnycompanyPocSG", "ALBSecurityGroup">>,
     <<"AnycompanyDemoInstance", "AnycompanyDemoVPC">>,
     <<"AnycompanyDemoInstance", "AnycompanyPocSG">>,
     <<"AnycompanyALB", "AnycompanyDemoVPC">>,
     <<"AnycompanyALB", "ALBSecurityGroup">>,
     <<"AnycompanyTargetGroup", "AnycompanyDemoVPC">>,
     <<"AnycompanyTargetGroup", "AnycompanyDemoInstance">>,
     <<"ALBListener", "AnycompanyALB">>,
     <<"ALBListener", "AnycompanyTargetGroup">>}

ResourcesOf(s) ==
    CASE s = Root -> RootResources
      [] s = Index -> IndexResources
      [] s = Bedrock -> BedrockResources
      [] s = App -> AppResources

DependsOnIn(s) ==
    CASE s = Root -> RootDependsOn
      [] s = Index -> IndexDependsOn
      [] s = Bedrock -> BedrockDependsOn
      [] s = App -> AppDependsOn

AllResources == {<<s, r>> : s \in Stacks, r \in RootResources \cup IndexResources
                                              \cup BedrockResources \cup AppResources}
               \cap UNION {{<<s, r>> : r \in ResourcesOf(s)} : s \in Stacks}

\* The SSM parameters, each with the StringParameter construct that writes it
Params ==
    {"/kb/bedrockExecutionRoleArn", "/app/ec2RoleArn", "/kb/collectionArn",
     "/kb/indexName", "/kb/opensearchEndpoint"}

ParamWriter(p) ==
    CASE p = "/kb/bedrockExecutionRoleArn" -> <<Root, "BedrockKBRoleArnParam">>
      [] p = "/app/ec2RoleArn" -> <<Root, "EC2RoleArnParam">>
      [] p = "/kb/collectionArn" -> <<Index, "CollectionArnParam">>
      [] p = "/kb/indexName" -> <<Index, "IndexNameParam">>
      [] p = "/kb/opensearchEndpoint" -> <<Index, "OpenSearchEndpointParam">>

\* <<s, p>>: the template of stack s takes parameter p from SSM, resolved when
\* the deployment of s starts
DeployReads ==
    {<<Index, "/kb/bedrockExecutionRoleArn">>, <<Index, "/app/ec2RoleArn">>,
     <<Bedrock, "/kb/collectionArn">>, <<Bedrock, "/kb/indexName">>,
     <<App, "/app/ec2RoleArn">>}

\* The instance whose user data starts the dashboard, and what the dashboard
\* reads with get_parameter
DashboardHost == <<App, "AnycompanyDemoInstance">>

DashboardReads == {"/kb/opensearchEndpoint"}

-----------------------------------------------------------------------------
(* Requests and replies of the three services *)

Hosts == {"endpoint-1", "endpoint-2"}

NoRequest == [input |-> <<>>, name |-> "", host |-> "", index |-> "", query |-> <<>>]

NoReply == [kind |-> "none", text |-> <<>>, host |-> "", response |-> NoResponse]

ErrorReply == [NoReply EXCEPT !.kind = "error"]

\* `except Exception as e` of process_query
ProcessQueryHandles(exc) == TRUE

ErrParse == "Failed to parse JSON"

ErrNoJson == "Failed to parse valid JSON from the response"

ErrOccurred == "Error occurred"

WarnEmpty == "Please enter a search query"

Busy == inflight # "none"

\* A page that keeps what the last run drew
StalePage == UNCHANGED <<shown, summary, detail>>

\* A run of the script draws the page anew
FreshPage ==
    /\ shown' = {}
    /\ summary' = NoView
    /\ detail' = NoView

\* process_query returns None without a word on the page
FailSilently(msgs) ==
    /\ pc' = "Failed"
    /\ inflight' = "none"
    /\ request' = NoRequest
    /\ reply' = NoReply
    /\ UNCHANGED <<stack, created, query_text, query_input, calls, shown, summary, detail, fault>>

\* process_query returns None: main renders nothing more
Fail(msgs) ==
    /\ pc' = "Failed"
    /\ shown' = shown \cup msgs
    /\ inflight' = "none"
    /\ request' = NoRequest
    /\ reply' = NoReply
    /\ UNCHANGED <<stack, created, query_text, query_input, calls, summary, detail, fault>>

\* An except clause that issues the failed call once more
ThrowAndRetry ==
    /\ reply' = NoReply
    /\ calls' = Append(calls, inflight)
    /\ UNCHANGED <<stack, created, query_text, query_input, pc, inflight, request, cleaned_query,
                   shown, summary, detail, fault>>

\* An exception inside the try of process_query
Throw ==
    IF ProcessQueryHandles("Exception")
    THEN Fail({ErrOccurred}) /\ UNCHANGED cleaned_query
    ELSE /\ fault' = TRUE
         /\ pc' = "Failed"
         /\ inflight' = "none"
         /\ request' = NoRequest
         /\ reply' = NoReply
         /\ UNCHANGED <<stack, created, query_text, query_input, calls, shown, summary, detail, cleaned_query>>

NotExtracted == [none |-> TRUE, val |-> <<>>, err |-> FALSE, raised |-> FALSE]

Init ==
    /\ query_text = EmptyText
    /\ query_input = EmptyText
    /\ pc = "Idle"
    /\ inflight = "none"
    /\ request = NoRequest
    /\ reply = NoReply
    /\ cleaned_query = NotExtracted
    /\ calls = <<>>
    /\ shown = {}
    /\ summary = NoView
    /\ detail = NoView
    /\ fault = FALSE
    /\ stack = [s \in Stacks |-> "deployed"]
    /\ created = AllResources

-----------------------------------------------------------------------------
(* The user *)

\* The user edits the text area; the script runs with no button pressed
TypeText(t) ==
    /\ ~Busy
    /\ t # query_input
    /\ query_input' = t
    /\ pc' = "Idle"
    /\ FreshPage
    /\ cleaned_query' = NotExtracted
    /\ calls' = <<>>
    /\ UNCHANGED <<stack, created, query_text, inflight, request, reply, fault>>

\* One of the three example buttons, then st.rerun()
Preset(p) ==
    /\ ~Busy
    /\ query_text' = p
    /\ query_input' = p
    /\ pc' = "Idle"
    /\ FreshPage
    /\ cleaned_query' = NotExtracted
    /\ calls' = <<>>
    /\ UNCHANGED <<stack, created, inflight, request, reply, fault>>

\* The Clear button, then st.rerun()
Clear ==
    /\ ~Busy
    /\ query_text' = EmptyText
    /\ query_input' = EmptyText
    /\ pc' = "Idle"
    /\ FreshPage
    /\ cleaned_query' = NotExtracted
    /\ calls' = <<>>
    /\ UNCHANGED <<stack, created, inflight, request, reply, fault>>

\* A Search button without the test of line 223: empty text is submitted too
SearchEmptySubmits ==
    /\ ~Busy
    /\ query_input = EmptyText
    /\ pc' = "Translating"
    /\ FreshPage
    /\ cleaned_query' = NotExtracted
    /\ inflight' = "bedrock"
    /\ request' = [NoRequest EXCEPT !.input = query_input]
    /\ reply' = NoReply
    /\ calls' = <<"bedrock">>
    /\ UNCHANGED <<stack, created, query_text, query_input, fault>>

\* The Search button with an empty text area
SearchEmpty ==
    /\ ~Busy
    /\ query_input = EmptyText
    /\ pc' = "Idle"
    /\ shown' = {WarnEmpty}
    /\ summary' = NoView
    /\ detail' = NoView
    /\ cleaned_query' = NotExtracted
    /\ calls' = <<>>
    /\ UNCHANGED <<stack, created, query_text, query_input, inflight, request, reply, fault>>

\* A Search button that answers only on a page that shows no cycle's outcome
SubmitFromIdleOnly ==
    /\ ~Busy
    /\ pc = "Idle"
    /\ query_input # EmptyText
    /\ pc' = "Translating"
    /\ FreshPage
    /\ cleaned_query' = NotExtracted
    /\ inflight' = "bedrock"
    /\ request' = [NoRequest EXCEPT !.input = query_input]
    /\ reply' = NoReply
    /\ calls' = <<"bedrock">>
    /\ UNCHANGED <<stack, created, query_text, query_input, fault>>

\* A Search button that stores the submitted text in the session
SubmitStoresText ==
    /\ ~Busy
    /\ query_input # EmptyText
    /\ pc' = "Translating"
    /\ FreshPage
    /\ cleaned_query' = NotExtracted
    /\ inflight' = "bedrock"
    /\ request' = [NoRequest EXCEPT !.input = query_input]
    /\ reply' = NoReply
    /\ calls' = <<"bedrock">>
    /\ query_text' = query_input
    /\ UNCHANGED <<stack, created, query_input, fault>>

\* The Search button with text: process_query up to invoke_model
Submit ==
    /\ ~Busy
    /\ query_input # EmptyText
    /\ pc' = "Translating"
    /\ FreshPage
    /\ cleaned_query' = NotExtracted
    /\ inflight' = "bedrock"
    /\ request' = [NoRequest EXCEPT !.input = query_input]
    /\ reply' = NoReply
    /\ calls' = <<"bedrock">>
    /\ UNCHANGED <<stack, created, query_text, query_input, fault>>

-----------------------------------------------------------------------------
(* The services *)

Answer(r) ==
    /\ reply' = r
    /\ request' = NoRequest
    /\ UNCHANGED <<stack, created, query_text, query_input, pc, inflight, cleaned_query, calls,
                   shown, summary, detail, fault>>

\* bedrock_runtime.invoke_model answers with a text, or raises
BedrockAnswers ==
    /\ inflight = "bedrock"
    /\ reply.kind = "none"
    /\ \/ \E t \in Texts : Answer([NoReply EXCEPT !.kind = "ok", !.text = t])
       \/ Answer(ErrorReply)

\* ssm_client.get_parameter answers with the endpoint, or raises
SsmAnswers ==
    /\ inflight = "ssm"
    /\ reply.kind = "none"
    /\ \/ \E h \in Hosts : Answer([NoReply EXCEPT !.kind = "ok", !.host = h])
       \/ Answer(ErrorReply)

\* The index takes a query that is a JSON object, and refuses any other value
IndexAccepts(query) == Len(query) = 1 /\ query[1] \in ObjectUnits

\* client.search answers with hits and aggregations, or raises
IndexAnswers ==
    /\ inflight = "index"
    /\ reply.kind = "none"
    /\ \/ /\ IndexAccepts(request.query)
          /\ \E r \in IndexResponses : Answer([NoReply EXCEPT !.kind = "ok", !.response = r])
       \/ Answer(ErrorReply)

-----------------------------------------------------------------------------
(* process_query and main, from one answer to the next call *)

\* The check of cleaned_query left out
RejectsNothing(c) == FALSE

\* `if not cleaned_query` of process_query
Rejected(c) == c.none \/ ~Truthy(c.val)

\* The lookup of /kb/opensearchEndpoint that opens the second spinner
CallSsm(c) ==
    /\ pc' = "Searching"
    /\ cleaned_query' = c
    /\ inflight' = "ssm"
    /\ request' = [NoRequest EXCEPT !.name = "/kb/opensearchEndpoint"]
    /\ reply' = NoReply
    /\ calls' = Append(calls, "ssm")
    /\ UNCHANGED <<stack, created, query_text, query_input, shown, summary, detail, fault>>

\* invoke_model has returned or raised: extraction, then the endpoint lookup
ModelReturned ==
    /\ inflight = "bedrock"
    /\ reply.kind # "none"
    /\ IF reply.kind = "error" THEN Throw
       ELSE LET c == clean_json_string(reply.text)
            IN  IF c.raised THEN Throw
                ELSE IF Rejected(c)
                THEN /\ Fail((IF c.err THEN {ErrParse} ELSE {}) \cup {ErrNoJson})
                     /\ cleaned_query' = c
                ELSE CallSsm(c)

\* A search that sends the example query of the prompt whatever was extracted
SearchRequestOfExample(host, c) ==
    [NoRequest EXCEPT !.host = host,
                      !.index = "bedrock-knowledge-base-default-index",
                      !.query = <<"QBreachTrue">>]

\* The body process_query hands to client.search
SearchRequest(host, c) ==
    [NoRequest EXCEPT !.host = host,
                      !.index = "bedrock-knowledge-base-default-index",
                      !.query = c.val]

\* get_parameter has returned or raised: the search is issued
SsmReturned ==
    /\ inflight = "ssm"
    /\ reply.kind # "none"
    /\ IF reply.kind = "error" THEN Throw
       ELSE /\ inflight' = "index"
            /\ request' = SearchRequest(reply.host, cleaned_query)
            /\ reply' = NoReply
            /\ calls' = Append(calls, "index")
            /\ UNCHANGED <<stack, created, query_text, query_input, pc, cleaned_query, shown,
                           summary, detail, fault>>

\* client.search has returned or raised: main draws the two tabs
IndexReturned ==
    /\ inflight = "index"
    /\ reply.kind # "none"
    /\ IF reply.kind = "error" THEN Throw
       ELSE LET tab2 == DetailView(reply.response)
            IN  /\ pc' = "Rendered"
                /\ summary' = SummaryView(reply.response)
                /\ detail' = tab2
                /\ fault' = (fault \/ \E i \in 1..Len(tab2.rows) : EntryRaises(tab2.rows[i]))
                /\ inflight' = "none"
                /\ request' = NoRequest
                /\ reply' = NoReply
                /\ UNCHANGED <<stack, created, query_text, query_input, cleaned_query, calls, shown>>

Next ==
    \/ \E t \in Inputs : TypeText(t)
    \/ \E p \in Presets : Preset(p)
    \/ Clear
    \/ SearchEmpty
    \/ Submit
    \/ BedrockAnswers
    \/ SsmAnswers
    \/ IndexAnswers
    \/ ModelReturned
    \/ SsmReturned
    \/ IndexReturned

Spec == Init /\ [][Next]_vars

-----------------------------------------------------------------------------
(* clean_json_string on its own: a text of the service, then the call *)

InitExtract ==
    /\ query_text = EmptyText
    /\ query_input = PresetBreach
    /\ pc = "Translating"
    /\ inflight = "bedrock"
    /\ request = NoRequest
    /\ reply \in {[NoReply EXCEPT !.kind = "ok", !.text = t] : t \in Texts}
    /\ cleaned_query = NotExtracted
    /\ calls = <<"bedrock">>
    /\ shown = {}
    /\ summary = NoView
    /\ detail = NoView
    /\ fault = FALSE
    /\ stack = [s \in Stacks |-> "deployed"]
    /\ created = AllResources

Extract ==
    /\ pc = "Translating"
    /\ pc' = "Extracted"
    /\ cleaned_query' = clean_json_string(reply.text)
    /\ UNCHANGED <<stack, created, query_text, query_input, inflight, request, reply, calls,
                   shown, summary, detail, fault>>

SpecExtract == InitExtract /\ [][Extract]_vars

-----------------------------------------------------------------------------
(* The deployment of the app: stacks in dependency order, then their resources *)

dashboard == <<query_text, query_input, pc, inflight, request, reply, cleaned_query,
               calls, shown, summary, detail, fault>>

InitDeploy ==
    /\ query_text = EmptyText
    /\ query_input = EmptyText
    /\ pc = "Idle"
    /\ inflight = "none"
    /\ request = NoRequest
    /\ reply = NoReply
    /\ cleaned_query = NotExtracted
    /\ calls = <<>>
    /\ shown = {}
    /\ summary = NoView
    /\ detail = NoView
    /\ fault = FALSE
    /\ stack = [s \in Stacks |-> "pending"]
    /\ created = {}

\* A stack's deployment starts once every stack it depends on is deployed
StartStack(s) ==
    /\ stack[s] = "pending"
    /\ \A d \in Stacks : <<s, d>> \in StackDependsOn => stack[d] = "deployed"
    /\ stack' = [stack EXCEPT ![s] = "deploying"]
    /\ UNCHANGED <<created, dashboard>>

\* A resource is created once every resource it depends on exists
CreateResource(s, r) ==
    /\ stack[s] = "deploying"
    /\ r \in ResourcesOf(s)
    /\ <<s, r>> \notin created
    /\ \A d \in ResourcesOf(s) : <<r, d>> \in DependsOnIn(s) => <<s, d>> \in created
    /\ created' = created \cup {<<s, r>>}
    /\ UNCHANGED <<stack, dashboard>>

\* The stack is deployed when all its resources exist
FinishStack(s) ==
    /\ stack[s] = "deploying"
    /\ \A r \in ResourcesOf(s) : <<s, r>> \in created
    /\ stack' = [stack EXCEPT ![s] = "deployed"]
    /\ UNCHANGED <<created, dashboard>>

NextDeploy ==
    \/ \E s \in Stacks : StartStack(s)
    \/ \E s \in Stacks : \E r \in ResourcesOf(s) : CreateResource(s, r)
    \/ \E s \in Stacks : FinishStack(s)

SpecDeploy == InitDeploy /\ [][NextDeploy]_vars

-----------------------------------------------------------------------------
(* What the claims speak of *)

Range(s) == {s[i] : i \in 1..Len(s)}

Count(s, x) == Cardinality({i \in 1..Len(s) : s[i] = x})

\* The texts between the first '{' and the last '}' of a text, both included:
\* empty when the text has no such pair in that order
BraceSpans(t) ==
    {SubSeq(t, i, j) : <<i, j>> \in
        {p \in (1..Len(t)) \X (1..Len(t)) :
            /\ p[1] <= p[2]
            /\ HasOpen(t[p[1]]) /\ \A k \in 1..(p[1] - 1) : ~HasOpen(t[k])
            /\ HasClose(t[p[2]]) /\ \A k \in (p[2] + 1)..Len(t) : ~HasClose(t[k])}}

SpanParses(t) == \E s \in BraceSpans(t) : json_loads(s).ok

\* Words, numbers and white space: text with no brace and no JSON of its own
ProseUnits == {"Here", " ", "0"}

IsProse(s) == \A i \in 1..Len(s) : s[i] \in ProseUnits

\* An object with prose before it, after it, or both
WrappedObject(t, i) ==
    /\ i \in 1..Len(t)
    /\ t[i] \in ObjectUnits
    /\ Len(t) > 1
    /\ IsProse(SubSeq(t, 1, i - 1))
    /\ IsProse(SubSeq(t, i + 1, Len(t)))

\* C1: clean_json_string returns the parse of the whole text when the whole text
\* is JSON; otherwise the parse of the text from the first '{' to the last '}'
\* when that is JSON; so an object inside prose comes out as the object alone does.
C1_TwoTierExtraction ==
    pc = "Extracted" =>
        LET t == reply.text
        IN  /\ json_loads(t).ok => cleaned_query = Returned(json_loads(t).val)
            /\ (~json_loads(t).ok /\ SpanParses(t)) =>
                    \E s \in BraceSpans(t) : cleaned_query = Returned(json_loads(s).val)
            /\ \A i \in 1..Len(t) :
                    WrappedObject(t, i) =>
                        cleaned_query = clean_json_string(<<t[i]>>)
                        /\ cleaned_query = Returned(<<t[i]>>)

C1_Witness ==
    /\ pc = "Extracted"
    /\ reply.text = <<"Here", "QBreachTrue", "Here">>
    /\ cleaned_query = Returned(<<"QBreachTrue">>)

ExtractionFails(t) == ~json_loads(t).ok /\ ~SpanParses(t)

ModelTextConsumed ==
    inflight = "bedrock" /\ reply.kind = "ok" /\ reply' = NoReply

\* C2: when neither the whole text nor its first-'{'-to-last-'}' slice is JSON,
\* the cycle ends with a visible extraction error, no exception leaves
\* clean_json_string, and no search is issued in the cycle.
C2_ExtractionFailureStopsCycle ==
    [][(ModelTextConsumed /\ ExtractionFails(reply.text)) =>
            /\ pc' = "Failed"
            /\ ErrNoJson \in shown'
            /\ ErrOccurred \notin shown'
            /\ ~cleaned_query'.raised
            /\ ~fault'
            /\ inflight' = "none"
            /\ "index" \notin Range(calls')
            /\ "ssm" \notin Range(calls')]_vars

C2_Witness ==
    /\ pc = "Failed"
    /\ shown = {ErrParse, ErrNoJson}
    /\ calls = <<"bedrock">>

CycleTransitions ==
    {<<"Idle", "Translating">>, <<"Translating", "Searching">>,
     <<"Translating", "Failed">>, <<"Searching", "Rendered">>,
     <<"Searching", "Failed">>, <<"Failed", "Translating">>,
     <<"Rendered", "Translating">>}

InCycle(p) == p \in {"Translating", "Searching"}

CycleContinues ==
    ENABLED (BedrockAnswers \/ SsmAnswers \/ IndexAnswers
             \/ ModelReturned \/ SsmReturned \/ IndexReturned)

\* C3: a cycle moves only Idle->Translating, Translating->Searching,
\* Translating->Failed, Searching->Rendered, Searching->Failed; from Failed and
\* from Rendered a submit starts the next cycle; the session is never stuck.
C3_CycleStateMachine ==
    /\ [][(pc' # pc /\ (InCycle(pc) \/ pc' # "Idle")) =>
              <<pc, pc'>> \in CycleTransitions]_vars
    /\ [](pc \in {"Idle", "Translating", "Searching", "Rendered", "Failed"})
    /\ [](pc \in {"Failed", "Rendered"} => ENABLED Submit)
    /\ [](InCycle(pc) => CycleContinues)

C3_Witness ==
    /\ pc = "Failed"
    /\ calls = <<"bedrock", "ssm", "index">>
    /\ ENABLED Submit

IsPrefix(s, t) == Len(s) <= Len(t) /\ s = SubSeq(t, 1, Len(s))

\* C4: the endpoint lookup and the search are issued only after invoke_model has
\* returned and its text has been extracted into a query, one call at a time.
C4_CallsAreSequential ==
    /\ IsPrefix(calls, <<"bedrock", "ssm", "index">>)
    /\ inflight \in {"ssm", "index"} =>
            /\ ~cleaned_query.none
            /\ Truthy(cleaned_query.val)
            /\ pc = "Searching"
    /\ (inflight = "index" /\ reply.kind = "none") => request.query = cleaned_query.val
    /\ inflight = "bedrock" => calls = <<"bedrock">>
    /\ inflight = "ssm" => calls = <<"bedrock", "ssm">>
    /\ inflight = "index" => calls = <<"bedrock", "ssm", "index">>

C4_Witness ==
    /\ inflight = "index"
    /\ request.query = <<"QTimeFalse">>
    /\ calls = <<"bedrock", "ssm", "index">>

\* C5: per submit the generation service is invoked at most once and the search
\* is issued at most once; after a failed call nothing is outstanding, so only
\* a new submit makes a new attempt.
C5_AtMostOncePerSubmit ==
    /\ Count(calls, "bedrock") <= 1
    /\ Count(calls, "ssm") <= 1
    /\ Count(calls, "index") <= 1
    /\ pc \in {"Idle", "Failed", "Rendered"} =>
            inflight = "none" /\ reply = NoReply /\ request = NoRequest

C5_Witness ==
    /\ pc = "Failed"
    /\ ErrOccurred \in shown
    /\ calls = <<"bedrock", "ssm", "index">>

CallFailed == inflight # "none" /\ reply.kind = "error" /\ reply' = NoReply

\* C6: when invoke_model, the parameter lookup or the search fails, an error is
\* shown and the cycle is aborted: no response, no later call, no view.
C6_FailedCallAbortsCycle ==
    [][CallFailed =>
            /\ ErrOccurred \in shown'
            /\ pc' = "Failed"
            /\ inflight' = "none"
            /\ calls' = calls
            /\ summary' = NoView
            /\ detail' = NoView]_vars

C6_Witness ==
    /\ pc = "Failed"
    /\ shown = {ErrOccurred}
    /\ calls = <<"bedrock">>
    /\ summary = NoView
    /\ detail = NoView

TermClauses(must) == {i \in 1..Len(must) : must[i].kind = "term"}

WellFormedQuery(q) ==
    /\ Len(q) = 1
    /\ q[1] \in ObjectUnits
    /\ Cardinality(TermClauses(MustList(q[1]))) = 1
    /\ ExistsClause \in Range(MustList(q[1]))
    /\ ScriptClause \in Range(MustList(q[1]))
    /\ Len(MustList(q[1])) = 3

\* C8: every query passed to the search has a must-list of exactly one term
\* clause and the two fixed company clauses, whatever the service returned.
C8_SentQueryHasFixedShape ==
    (inflight = "index" /\ reply.kind = "none") => WellFormedQuery(request.query)

\* C9: for an input with none of the trigger keywords the translation fails
\* and no query is sent to the index.
C9_NoKeywordNoQuery ==
    (pc # "Idle" /\ ~HasTrigger(query_input)) =>
        /\ "index" \notin Range(calls)
        /\ pc \notin {"Searching", "Rendered"}

\* C10: the term clause's value is true when the input does not contain "not"
\* and false when it does.
C10_PolarityFollowsNot ==
    (inflight = "index" /\ reply.kind = "none" /\ Len(request.query) = 1) =>
        \A i \in TermClauses(MustList(request.query[1])) :
            MustList(request.query[1])[i].value = PromptPolarity(query_input)

FullyDeployed(s) ==
    stack[s] = "deployed" /\ \A r \in ResourcesOf(s) : <<s, r>> \in created

Started(s) == stack[s] # "pending" \/ \E r \in ResourcesOf(s) : <<s, r>> \in created

\* The stacks a stack reaches by following the declared dependencies
RECURSIVE ReachedFrom(_, _)
ReachedFrom(S, n) ==
    IF n = 0 THEN S
    ELSE ReachedFrom(S \cup {d \in Stacks : \E a \in S : <<a, d>> \in StackDependsOn}, n - 1)

DependsOnItself(s) ==
    s \in ReachedFrom({d \in Stacks : <<s, d>> \in StackDependsOn}, Cardinality(Stacks))

\* C19: DataStack is fully deployed before IndexStack, BedrockStack or
\* AppInfraStack starts, and IndexStack before BedrockStack or AppInfraStack
\* starts; no stack depends on itself, and the deployment never blocks before
\* all four stacks are deployed.
C19_StackOrder ==
    /\ \A s \in {Index, Bedrock, App} : Started(s) => FullyDeployed(Root)
    /\ \A s \in {Bedrock, App} : Started(s) => FullyDeployed(Index)
    /\ \A s \in Stacks : ~DependsOnItself(s)
    /\ (\E s \in Stacks : stack[s] # "deployed") => ENABLED NextDeploy

C19_Witness ==
    /\ \A s \in Stacks : FullyDeployed(s)
    /\ created = AllResources

IndexHas(r) == <<Index, r>> \in created

\* C20: in IndexStack the vector index is created only after the encryption
\* policy, the network policy, the collection, the data access policy and the
\* wait-for-collection resource exist, and the collection only after the
\* encryption and network policies.
C20_IndexCreatedLast ==
    /\ IndexHas("FoundationalVectorIndex") =>
            /\ IndexHas("EncryptionPolicy")
            /\ IndexHas("NetworkPolicy")
            /\ IndexHas("BasicVectorCollection")
            /\ IndexHas("DataAccessPolicy")
            /\ IndexHas("WaitForCollection")
    /\ IndexHas("BasicVectorCollection") =>
            IndexHas("EncryptionPolicy") /\ IndexHas("NetworkPolicy")

C20_Witness ==
    /\ stack[Index] = "deploying"
    /\ IndexHas("FoundationalVectorIndex")
    /\ ~IndexHas("IndexNameParam")

SearchInFlight == inflight = "index" /\ reply.kind = "none"

\* The term clauses of the query in flight, as <<field, value>>
SentTerms ==
    IF Len(request.query) = 1
    THEN {<<MustList(request.query[1])[i].field, MustList(request.query[1])[i].value>> :
            i \in TermClauses(MustList(request.query[1]))}
    ELSE {}

\* C11: the input "what are the breach notification requirements for each
\* client?" is translated to a query whose term clause is
\* breach_notification_required: true, with the two fixed clauses.
C11_BreachPresetEndToEnd ==
    (SearchInFlight /\ query_input = PresetBreach) =>
        /\ WellFormedQuery(request.query)
        /\ SentTerms = {<<"breach_notification_required", TRUE>>}

\* C12: for any input containing "time", "hour", "billing" or "timekeeper" the
\* query's term clause is on time_entry_requirements, true when the input has
\* no "not" and false when it has.
C12_TimeKeywordsSelectTimeField ==
    (SearchInFlight /\ RuleMatches(FieldRules[3], query_input)) =>
        SentTerms = {<<"time_entry_requirements", PromptPolarity(query_input)>>}

ResponseRendered == inflight = "index" /\ reply.kind = "ok" /\ reply' = NoReply

\* What tab2 shows for a field of a document
ShownAs(source, field, marker) ==
    IF source[field] = "absent" THEN marker ELSE source[field]

\* C13: the summary has one row per bucket of the response, in the response's
\* order, and the detail view one entry per hit, in hit order.
C13_ShapingKeepsOrderAndCount ==
    [][ResponseRendered =>
            LET buckets == reply.response.buckets
                hits == reply.response.hits
            IN  /\ summary'.rows = buckets
                /\ Len(detail'.rows) = Len(hits)
                /\ \A i \in 1..Len(hits) :
                        /\ detail'.rows[i].company = ShownAs(hits[i], "company", "Unknown")
                        /\ detail'.rows[i].Agreement_date =
                                ShownAs(hits[i], "Agreement_date", "N/A")]_vars

C13_Witness ==
    /\ pc = "Rendered"
    /\ summary.rows = <<[key |-> "globex", doc_count |-> 1], [key |-> "acme", doc_count |-> 1]>>
    /\ Len(detail.rows) = 2
    /\ detail.rows[1].company = "globex"
    /\ detail.rows[1].Agreement_date = "N/A"
    /\ detail.rows[2].company = "acme"

RowValues(e) ==
    {e.company, e.Agreement_date, e.breach_notification_required,
     e.time_entry_requirements, e.types_of_expenses, e.AMAZON_BEDROCK_TEXT}

\* C14: in the detail view an attribute the document lacks, its key missing or
\* present without a value, is shown as a "not available" marker, never as
\* absent or null.
C14_LackingAttributeShowsMarker ==
    pc = "Rendered" =>
        \A i \in 1..Len(detail.rows) :
            "null" \notin RowValues(detail.rows[i]) /\ "absent" \notin RowValues(detail.rows[i])

\* C15: every detail entry exposes the whole projection asked of the index:
\* company, the three domain attributes, the agreement date, the raw text and
\* x-amz-bedrock-kb-source-uri.
C15_EntryExposesProjection ==
    pc = "Rendered" =>
        \A i \in 1..Len(detail.rows) : DOMAIN detail.rows[i] = SourceFields

\* C16: a search with zero hits shows the no-results line in both tabs; the
\* summary decides on the buckets and the detail view on the hits.
C16_ZeroHitsShowNoResults ==
    [][ResponseRendered =>
            LET buckets == reply.response.buckets
                hits == reply.response.hits
            IN  /\ hits = <<>> =>
                        /\ summary' = [state |-> "No companies found", rows |-> <<>>]
                        /\ detail' = [state |-> "No detailed results found", rows |-> <<>>]
                /\ summary'.state = "No companies found" <=> buckets = <<>>
                /\ detail'.state = "No detailed results found" <=> hits = <<>>
                /\ summary'.state \in {"No companies found", "rows"}
                /\ detail'.state \in {"No detailed results found", "rows"}]_vars

C16_Witness ==
    /\ pc = "Rendered"
    /\ summary.state = "No companies found"
    /\ detail.state = "No detailed results found"

\* C17 as stated: after any sequence of submit, preset and clear actions the
\* persisted field holds the last-submitted text.
C17_FieldHoldsLastSubmitted ==
    pc \in {"Translating", "Searching", "Rendered", "Failed"} => query_text = query_input

\* C17 as amended: the persisted field holds the text of the last preset button
\* pressed, or the empty text at the start and after Clear; it changes only on
\* those buttons, which also fill the text area, and a submit leaves it alone.
C17_FieldHoldsLastPreset ==
    /\ [](query_text \in Presets \cup {EmptyText})
    /\ [][query_text' # query_text =>
              /\ pc' = "Idle"
              /\ query_input' = query_text'
              /\ calls' = <<>>]_vars
    /\ [][(pc' = "Translating" /\ pc # "Translating") => query_text' = query_text]_vars

C17_Witness ==
    /\ pc = "Rendered"
    /\ query_input = NoKeywordText
    /\ query_text = PresetTime

CycleErrors == {{ErrOccurred}, {ErrNoJson}, {ErrParse, ErrNoJson}}

\* C18: what a cycle shows depends only on the text submitted in it and the
\* answers received in it: a submit resets everything a cycle reads or shows,
\* each step's output is set from the answer it consumes, and a failed cycle
\* shows no results, query or endpoint of an earlier cycle.
C18_CyclesAreIsolated ==
    /\ [][(pc' = "Translating" /\ pc # "Translating") =>
              /\ shown' = {}
              /\ summary' = NoView
              /\ detail' = NoView
              /\ cleaned_query' = NotExtracted
              /\ calls' = <<"bedrock">>
              /\ reply' = NoReply
              /\ request' = [NoRequest EXCEPT !.input = query_input']]_vars
    /\ [](pc \in {"Translating", "Searching", "Failed"} =>
              summary = NoView /\ detail = NoView)
    /\ [](InCycle(pc) => shown = {})
    /\ [](pc = "Failed" =>
              /\ shown \in CycleErrors
              /\ request = NoRequest
              /\ reply = NoReply)
    /\ [](pc = "Rendered" => shown = {} /\ request = NoRequest /\ reply = NoReply)
    /\ [][CallFailed => shown' = {ErrOccurred}]_vars
    /\ [][(ModelTextConsumed /\ pc' = "Failed") =>
              shown' = (IF clean_json_string(reply.text).raised THEN {ErrOccurred}
                        ELSE IF clean_json_string(reply.text).err
                        THEN {ErrParse, ErrNoJson} ELSE {ErrNoJson})]_vars
    /\ [][(inflight = "ssm" /\ reply.kind = "ok" /\ reply' = NoReply) =>
              request' = [NoRequest EXCEPT !.host = reply.host,
                                           !.index = "bedrock-knowledge-base-default-index",
                                           !.query = cleaned_query.val]]_vars

C18_Witness ==
    /\ pc = "Failed"
    /\ query_text = PresetExpenses
    /\ query_input = ExampleNegated
    /\ shown = {ErrOccurred}
    /\ calls = <<"bedrock", "ssm">>
    /\ summary = NoView

ParamWritten(p) == ParamWriter(p) \in created

ForcedEarlier(s, w) ==
    w \in ReachedFrom({d \in Stacks : <<s, d>> \in StackDependsOn}, Cardinality(Stacks))

\* C21: every SSM parameter is written before it is read: when a stack that
\* resolves a parameter at deploy time has started, and when the instance that
\* runs the dashboard exists, the parameter's StringParameter has been created,
\* by a stack the declared dependencies put before the reader.
C21_ParamsWrittenBeforeRead ==
    /\ \A rd \in DeployReads :
            /\ Started(rd[1]) => ParamWritten(rd[2])
            /\ ForcedEarlier(rd[1], ParamWriter(rd[2])[1])
    /\ \A p \in DashboardReads :
            /\ DashboardHost \in created => ParamWritten(p)
            /\ ForcedEarlier(DashboardHost[1], ParamWriter(p)[1])
    /\ \A p \in Params : ParamWriter(p)[2] \in ResourcesOf(ParamWriter(p)[1])
    /\ {rd[2] : rd \in DeployReads} \cup DashboardReads = Params

C21_Witness ==
    /\ stack[Bedrock] = "deploying"
    /\ stack[App] = "deploying"
    /\ DashboardHost \in created
    /\ <<Bedrock, "BedrockKnowledgeBase">> \in created

\* A step that makes no external call and starts no cycle
NoCallNoCycle ==
    /\ inflight = "none" /\ inflight' = "none"
    /\ calls' = <<>>
    /\ request' = NoRequest
    /\ reply' = NoReply
    /\ pc' = "Idle"

\* C22: the services are called only in a cycle started by Search with a
\* non-empty text. An example button sets the persisted text to its preset,
\* Clear sets it to the empty text and Search with an empty text shows the
\* warning; none of the three starts a cycle or makes a call.
C22_OnlySearchWithTextCalls ==
    /\ [][(\E p \in Presets : Preset(p)) =>
              NoCallNoCycle /\ query_text' \in Presets /\ shown' = {}]_vars
    /\ [][Clear => NoCallNoCycle /\ query_text' = EmptyText /\ shown' = {}]_vars
    /\ [][SearchEmpty =>
              NoCallNoCycle /\ shown' = {WarnEmpty} /\ query_text' = query_text]_vars
    /\ [][(inflight = "none" /\ inflight' # "none") =>
              /\ query_input # EmptyText
              /\ query_input' = query_input
              /\ pc' = "Translating"
              /\ inflight' = "bedrock"
              /\ calls' = <<"bedrock">>
              /\ request'.input = query_input]_vars
    /\ [][calls' # calls => (calls' = <<>> \/ InCycle(pc'))]_vars
    /\ [](Busy => InCycle(pc) /\ query_input # EmptyText /\ calls # <<>>)
    /\ [](calls # <<>> => calls[1] = "bedrock" /\ query_input # EmptyText)
    /\ [](query_input = EmptyText => ~Busy /\ calls = <<>> /\ pc = "Idle")

C22_Witness ==
    /\ shown = {WarnEmpty}
    /\ query_input = EmptyText
    /\ query_text = EmptyText
    /\ pc = "Idle"
    /\ calls = <<>>
    /\ inflight = "none"

\* Extraction has returned a non-empty JSON value
ExtractedValue(c) == ~c.none /\ ~c.raised /\ Truthy(c.val)

SearchIssued == "index" \in Range(calls)

CycleOver == pc \in {"Failed", "Rendered"}

EndpointRead == inflight = "ssm" /\ reply.kind = "ok" /\ reply' = NoReply

\* C23 as stated: a search is issued in a cycle exactly when the model call
\* succeeded and extraction returned a non-empty JSON value.
C23_SearchIffExtracted ==
    CycleOver => (SearchIssued <=> ExtractedValue(cleaned_query))

\* C23 as amended: a search is issued in a cycle exactly when the model call
\* succeeded, extraction returned a non-empty JSON value and the lookup of the
\* endpoint succeeded; the query sent is the extracted value unchanged. A text
\* that parses to an empty value ends the cycle as an extraction failure with
\* no lookup and no search; any other parsed value goes on to the index,
\* whatever its shape.
C23_SearchIffExtractedAndEndpointRead ==
    /\ [][ModelTextConsumed =>
              LET c == clean_json_string(reply.text)
                  whole == json_loads(reply.text)
              IN  /\ ExtractedValue(c) <=> (inflight' = "ssm" /\ pc' = "Searching")
                  /\ ExtractedValue(c) => cleaned_query' = c
                  /\ ~ExtractedValue(c) => pc' = "Failed" /\ inflight' = "none" /\ calls' = calls
                  /\ (whole.ok /\ ~Truthy(whole.val)) =>
                          shown' = {ErrNoJson} /\ pc' = "Failed" /\ calls' = <<"bedrock">>
                  /\ (whole.ok /\ Truthy(whole.val)) =>
                          inflight' = "ssm" /\ cleaned_query'.val = whole.val]_vars
    /\ [][(inflight = "bedrock" /\ reply.kind = "error" /\ reply' = NoReply) =>
              pc' = "Failed" /\ inflight' = "none" /\ calls' = calls]_vars
    /\ [][EndpointRead =>
              /\ inflight' = "index"
              /\ calls' = Append(calls, "index")
              /\ request'.query = cleaned_query.val
              /\ ExtractedValue(cleaned_query)]_vars
    /\ [][(inflight = "ssm" /\ reply.kind = "error" /\ reply' = NoReply) =>
              pc' = "Failed" /\ inflight' = "none" /\ calls' = calls]_vars
    /\ [][(inflight' = "index" /\ inflight # "index") => EndpointRead]_vars
    /\ [](inflight = "index" =>
              /\ SearchInFlight => request.query = cleaned_query.val
              /\ ExtractedValue(cleaned_query)
              /\ calls = <<"bedrock", "ssm", "index">>)
    /\ [](SearchIssued => ExtractedValue(cleaned_query) /\ Count(calls, "index") = 1)
    /\ [](CycleOver =>
              (SearchIssued <=> ExtractedValue(cleaned_query) /\ calls # <<"bedrock", "ssm">>))

C23_Witness ==
    /\ SearchInFlight
    /\ request.query = <<"[", "0", "]">>
    /\ ~WellFormedQuery(request.query)
    /\ cleaned_query = Returned(<<"[", "0", "]">>)

====
